---------------------------- MODULE Spec2Model ----------------------------
(***************************************************************************)
(* Orchestration layer of the trusted-dealer resharing run                 *)
(* (src/main.go, runEDDSAResharing; runECDSAResharing is the same flow).   *)
(*                                                                         *)
(* Goroutines of the run: main, one Start() goroutine per party, one       *)
(* outbound forwarder per party (makeOutCh), one completion forwarder per  *)
(* party (makeEdEndCh) and the router.  The tss-lib party is an opaque     *)
(* engine: it acts only inside Start() or UpdateFromBytes(), where it may  *)
(* send on its outbound channel and on its end channel.                    *)
(***************************************************************************)
EXTENDS Integers, Sequences, FiniteSets, TLC

\* ------------------------------------------------------------ identities
importerParty == "importer"

signerParties == <<"signer1", "signer2", "signer3">>

Signers == {signerParties[k] : k \in 1..Len(signerParties)}

Parties == {importerParty} \cup Signers

\* an id that no engine of the run carries
Ghost == "ghost"

\* ------------------------------------------------------------ constants
\* make(chan msg, 10)
OutCap == 10

\* make(chan tss.Message, 10)
ChCap == 10

\* make(chan edresult, 3)
SignerEndCap == 3

\* make(chan edresult, 1)
DiscardCap == 1

\* make(chan *edkeygen.LocalPartySaveData, 1)
EndChCap == 1

\* for i := 0; i < 3; i++
NCollect == 3

\* big.NewInt(0xff)
plaintextKey == 255

\* impSave.LocalSecrets.Xi: the same *big.Int as plaintextKey
impSaveXi == plaintextKey

\* ------------------------------------------------------------ bounds
\* stand-in for curve.Params().N (the real order does not fit TLC's integers)
Order == 258

\* messages the engines emit in a run of Spec, all parties together
MaxMsgs == 1

\* completions one engine publishes when it breaks its contract (SpecDup)
MaxDupEnds == 2

\* the share of each signer when the three shares recompose plaintextKey
SoundShare == plaintextKey \div NCollect

\* the shares a signer's SaveData may hold when they need not recompose it
ShareValues == {SoundShare, 171}

\* the tss.Message shapes an engine may hand to its outbound channel: the routing
\* header WireBytes() returns (To, IsBroadcast), whether WireBytes() succeeds, and
\* the parties whose UpdateFromBytes refuses the message (an error or ok = false)
Shapes ==
  { [to |-> <<"importer", "signer1", "signer2", "signer3">>, bc |-> TRUE,
     wire |-> TRUE, rej |-> {"signer2"}],
    [to |-> <<>>, bc |-> TRUE, wire |-> TRUE, rej |-> {}],
    [to |-> <<"importer", "ghost", "signer1">>, bc |-> FALSE, wire |-> TRUE,
     rej |-> {}],
    [to |-> <<"signer2">>, bc |-> FALSE, wire |-> FALSE, rej |-> {}] }

VARIABLES
  keyInt,        \* pid.KeyInt() of each party
  pcMain,        \* where the main goroutine is
  mainI,         \* loop index of the main goroutine's current loop
  partyMap,      \* ids with an engine in the lookup table
  startPc,       \* each party's Start() goroutine
  sPend,         \* messages the engine still sends inside Start()
  wg,            \* sync.WaitGroup counter
  ch,            \* each party's private outbound channel (makeOutCh)
  fwd,           \* message held by a party's outbound forwarder
  outCh,         \* shared outbound stream
  rpc,           \* where the router goroutine is
  cur,           \* envelope the router is processing (<<>> when none)
  ridx,          \* index into routing.To
  cPend,         \* messages the fed engine still sends inside UpdateFromBytes
  endCh,         \* each party's private end channel (makeEdEndCh)
  endFwd,        \* result held by a party's completion forwarder
  signerEndCh,   \* completion channel of the new committee
  discardEndCh,  \* completion channel of the importer
  results,       \* map id -> share collected by main
  totalXi,       \* sum of the collected shares mod the order (-1: not computed)
  proc,          \* "running", "Done" or "Failed"
  emitted,       \* messages each engine has sent
  ended,         \* completions each engine has published
  startErr,      \* parties whose Start() returned an error
  log,           \* what the router did, in order
  lastOk,        \* outcome of the UpdateFromBytes that just returned
  seen,          \* envelopes the router has taken from outCh, in order
  active         \* UpdateFromBytes calls in progress on each engine

vars == << keyInt, pcMain, mainI, partyMap, startPc, sPend, wg, ch, fwd, outCh,
           rpc, cur, ridx, cPend, endCh, endFwd, signerEndCh, discardEndCh,
           results, totalXi, proc, emitted, ended, startErr, log, lastOk, seen, active >>

\* ------------------------------------------------------------ helpers
Running == proc = "running"

\* tss.NewPartyID(..., big.NewInt(k)): the indices the program gives its parties
RealKey(p) ==
  CASE p = "importer" -> 0
    [] p = "signer1" -> 1
    [] p = "signer2" -> 2
    [] p = "signer3" -> 3

EmptyOf(S) == [p \in S |-> <<>>]

ZeroOf(S) == [p \in S |-> 0]

\* messages sent or promised so far, all engines together
Planned ==
  emitted["importer"] + emitted["signer1"] + emitted["signer2"] + emitted["signer3"]
  + sPend["importer"] + sPend["signer1"] + sPend["signer2"] + sPend["signer3"] + cPend

\* how many messages an engine may decide to send inside one call
Bursts(sizes, budget) == {k \in sizes : k = 0 \/ Planned + k <= budget}

\* ------------------------------------------------------------ Init
\* the state before the parties are created, with the parties' indices in keys
InitOf(keys) ==
  /\ keyInt \in keys
  /\ pcMain = "createImporter"
  /\ mainI = 0
  /\ partyMap = {}
  /\ startPc = [p \in Parties |-> "none"]
  /\ sPend = ZeroOf(Parties)
  /\ wg = 0
  /\ ch = EmptyOf(Parties)
  /\ fwd = EmptyOf(Parties)
  /\ outCh = <<>>
  /\ rpc = "none"
  /\ cur = <<>>
  /\ ridx = 0
  /\ cPend = 0
  /\ endCh = EmptyOf(Parties)
  /\ endFwd = EmptyOf(Parties)
  /\ signerEndCh = <<>>
  /\ discardEndCh = <<>>
  /\ results = {}
  /\ totalXi = -1
  /\ proc = "running"
  /\ emitted = ZeroOf(Parties)
  /\ ended = ZeroOf(Parties)
  /\ startErr = {}
  /\ log = <<>>
  /\ lastOk = "none"
  /\ seen = <<>>
  /\ active = ZeroOf(Parties)

\* the indices the program gives its parties
RealKeys == [p \in Parties |-> RealKey(p)]

Init == InitOf({RealKeys})

\* ------------------------------------------------------------ main: setup
\* the importer's party is created and left out of partyMap
CreateImporterUnmapped ==
  /\ Running
  /\ pcMain = "createImporter"
  /\ pcMain' = "createSigners"
  /\ mainI' = 1
  /\ UNCHANGED << keyInt, partyMap, startPc, sPend, wg, ch, fwd, outCh, rpc, cur,
                  ridx, cPend, endCh, endFwd, signerEndCh, discardEndCh, results,
                  totalXi, proc, emitted, ended, startErr, log, lastOk, seen,
                  active >>

\* partyMap[importerParty.Id] = importerPartyInstance
CreateImporter ==
  /\ Running
  /\ pcMain = "createImporter"
  /\ partyMap' = partyMap \cup {importerParty}
  /\ pcMain' = "createSigners"
  /\ mainI' = 1
  /\ UNCHANGED << keyInt, startPc, sPend, wg, ch, fwd, outCh, rpc, cur, ridx,
                  cPend, endCh, endFwd, signerEndCh, discardEndCh, results,
                  totalXi, proc, emitted, ended, startErr, log, lastOk, seen, active >>

\* if pid.KeyInt().Sign() < 0
NegativeIndex(pid) == keyInt[pid] < 0

\* one iteration of "for i, pid := range signerParties" that creates the parties
CreateSigner ==
  /\ Running
  /\ pcMain = "createSigners"
  /\ LET pid == signerParties[mainI] IN
       IF NegativeIndex(pid)
         THEN /\ proc' = "Failed"
              /\ UNCHANGED << partyMap, pcMain, mainI >>
         ELSE /\ partyMap' = partyMap \cup {pid}
              /\ IF mainI = Len(signerParties)
                   THEN pcMain' = "launchSigners" /\ mainI' = 1
                   ELSE pcMain' = pcMain /\ mainI' = mainI + 1
              /\ proc' = proc
  /\ UNCHANGED << keyInt, startPc, sPend, wg, ch, fwd, outCh, rpc, cur, ridx,
                  cPend, endCh, endFwd, signerEndCh, discardEndCh, results,
                  totalXi, emitted, ended, startErr, log, lastOk, seen, active >>

\* wg.Add(1); go func(){ defer wg.Done(); signerPartyInstances[i].Start() }
LaunchSigner(sizes, budget) ==
  /\ Running
  /\ pcMain = "launchSigners"
  /\ LET pid == signerParties[mainI] IN
       /\ wg' = wg + 1
       /\ startPc' = [startPc EXCEPT ![pid] = "inStart"]
       /\ \E k \in Bursts(sizes, budget) : sPend' = [sPend EXCEPT ![pid] = k]
  /\ IF mainI = Len(signerParties)
       THEN pcMain' = "launchImporter" /\ mainI' = 0
       ELSE pcMain' = pcMain /\ mainI' = mainI + 1
  /\ UNCHANGED << keyInt, partyMap, ch, fwd, outCh, rpc, cur, ridx, cPend,
                  endCh, endFwd, signerEndCh, discardEndCh, results, totalXi,
                  proc, emitted, ended, startErr, log, lastOk, seen, active >>

\* wg.Add(1); go func(){ defer wg.Done(); importerPartyInstance.Start() }
LaunchImporter(sizes, budget) ==
  /\ Running
  /\ pcMain = "launchImporter"
  /\ wg' = wg + 1
  /\ startPc' = [startPc EXCEPT ![importerParty] = "inStart"]
  /\ \E k \in Bursts(sizes, budget) : sPend' = [sPend EXCEPT ![importerParty] = k]
  /\ pcMain' = "launchRouter"
  /\ UNCHANGED << keyInt, mainI, partyMap, ch, fwd, outCh, rpc, cur, ridx, cPend,
                  endCh, endFwd, signerEndCh, discardEndCh, results, totalXi,
                  proc, emitted, ended, startErr, log, lastOk, seen, active >>

\* go func(){ for m := range outCh { ... } }, then results := map[string]edresult{}
LaunchRouter ==
  /\ Running
  /\ pcMain = "launchRouter"
  /\ rpc' = "recv"
  /\ pcMain' = "collect"
  /\ mainI' = 0
  /\ UNCHANGED << keyInt, partyMap, startPc, sPend, wg, ch, fwd, outCh, cur,
                  ridx, cPend, endCh, endFwd, signerEndCh, discardEndCh, results,
                  totalXi, proc, emitted, ended, startErr, log, lastOk, seen, active >>

\* ------------------------------------------------------------ engines
\* the envelope the router holds
Cur == cur[1]

\* the recipient the router is serving: routing.To[ridx]
Target == Cur.data.to[ridx]

\* UpdateFromBytes is running on party p
InUpdate(p) == rpc = "inConsume" /\ Target = p

\* the calls in which the engine of p still has a message to send
SendingCalls(p) ==
  {c \in {"Start", "Update"} :
     \/ c = "Start" /\ startPc[p] = "inStart" /\ sPend[p] > 0
     \/ c = "Update" /\ InUpdate(p) /\ cPend > 0}

\* the message the engine of p hands to its outbound channel; src is the party
\* the message itself names as its sender (tss.Message.GetFrom())
Message(p, sh) ==
  [src |-> p, seq |-> emitted[p] + 1, to |-> sh.to, bc |-> sh.bc, wire |-> sh.wire,
   rej |-> sh.rej]

\* the engine of p sends one message on its outbound channel, from inside Start()
\* or UpdateFromBytes(); the send blocks while the channel is full
EngineSend(p, shapes) ==
  /\ Running
  /\ Len(ch[p]) < ChCap
  /\ \E c \in SendingCalls(p) :
       IF c = "Start"
         THEN sPend' = [sPend EXCEPT ![p] = @ - 1] /\ cPend' = cPend
         ELSE cPend' = cPend - 1 /\ sPend' = sPend
  /\ \E sh \in shapes : ch' = [ch EXCEPT ![p] = Append(@, Message(p, sh))]
  /\ emitted' = [emitted EXCEPT ![p] = @ + 1]
  /\ UNCHANGED << keyInt, pcMain, mainI, partyMap, startPc, wg, fwd, outCh,
                  rpc, cur, ridx, endCh, endFwd, signerEndCh, discardEndCh,
                  results, totalXi, proc, ended, startErr, log, lastOk, seen, active >>

\* the Xi that the n-th SaveData of party p may carry: shares[n] for a signer
\* (the last set of shares for every later one)
SharesOf(p, shares, n) ==
  IF p \in Signers
    THEN shares[IF n <= Len(shares) THEN n ELSE Len(shares)]
    ELSE {0}

\* the engine of p publishes its SaveData on its end channel: a party ends in the
\* round that an inbound message completes, so from inside UpdateFromBytes; an
\* engine that failed to start publishes none
EnginePublish(p, maxEnds, shares) ==
  /\ Running
  /\ InUpdate(p)
  /\ p \notin startErr
  /\ ended[p] < maxEnds
  /\ Len(endCh[p]) < EndChCap
  /\ \E x \in SharesOf(p, shares, ended[p] + 1) : endCh' = [endCh EXCEPT ![p] = Append(@, x)]
  /\ ended' = [ended EXCEPT ![p] = @ + 1]
  /\ UNCHANGED << keyInt, pcMain, mainI, partyMap, startPc, sPend, wg, ch, fwd,
                  outCh, rpc, cur, ridx, cPend, endFwd, signerEndCh,
                  discardEndCh, results, totalXi, proc, emitted, startErr, log,
                  lastOk, seen, active >>

\* ------------------------------------------------------------ Start() goroutines
\* Start() returned nil: the deferred wg.Done() runs
StartReturnOk(p) ==
  /\ Running
  /\ startPc[p] = "inStart"
  /\ sPend[p] = 0
  /\ startPc' = [startPc EXCEPT ![p] = "returned"]
  /\ wg' = wg - 1
  /\ UNCHANGED << keyInt, pcMain, mainI, partyMap, sPend, ch, fwd, outCh, rpc,
                  cur, ridx, cPend, endCh, endFwd, signerEndCh, discardEndCh,
                  results, totalXi, proc, emitted, ended, startErr, log, lastOk, seen, active >>

\* the error of Start() dropped: the goroutine ends as after a nil
OnStartErrorIgnored(p) ==
  /\ startPc' = [startPc EXCEPT ![p] = "returned"]
  /\ wg' = wg - 1
  /\ proc' = proc

\* what the goroutine of p does with err != nil: a signer panics, which runs the
\* deferred wg.Done() and then kills the process; the importer calls log.Fatalf,
\* which exits at once
OnStartError(p) ==
  IF p = importerParty
    THEN /\ proc' = "Failed"
         /\ UNCHANGED << startPc, wg >>
    ELSE /\ startPc' = [startPc EXCEPT ![p] = "panicking"]
         /\ wg' = wg - 1
         /\ proc' = proc

\* Start() returned an error (an engine that published its result returns none)
StartReturnErr(p) ==
  /\ Running
  /\ startPc[p] = "inStart"
  /\ sPend[p] = 0
  /\ ended[p] = 0
  /\ startErr' = startErr \cup {p}
  /\ OnStartError(p)
  /\ UNCHANGED << keyInt, pcMain, mainI, partyMap, sPend, ch, fwd, outCh, rpc,
                  cur, ridx, cPend, endCh, endFwd, signerEndCh, discardEndCh,
                  results, totalXi, emitted, ended, log, lastOk, seen, active >>

\* the panic of a signer's goroutine reaches the top of the goroutine
PanicExit(p) ==
  /\ Running
  /\ startPc[p] = "panicking"
  /\ proc' = "Failed"
  /\ UNCHANGED << keyInt, pcMain, mainI, partyMap, startPc, sPend, wg, ch, fwd,
                  outCh, rpc, cur, ridx, cPend, endCh, endFwd, signerEndCh,
                  discardEndCh, results, totalXi, emitted, ended, startErr, log,
                  lastOk, seen, active >>

\* ------------------------------------------------------------ makeOutCh
\* the forwarder takes the newest message of the channel instead of the oldest
OutFwdTakeNewest(p) ==
  /\ Running
  /\ fwd[p] = <<>>
  /\ ch[p] # <<>>
  /\ fwd' = [fwd EXCEPT ![p] = <<ch[p][Len(ch[p])]>>]
  /\ ch' = [ch EXCEPT ![p] = SubSeq(@, 1, Len(@) - 1)]
  /\ UNCHANGED << keyInt, pcMain, mainI, partyMap, startPc, sPend, wg, outCh,
                  rpc, cur, ridx, cPend, endCh, endFwd, signerEndCh,
                  discardEndCh, results, totalXi, proc, emitted, ended, startErr,
                  log, lastOk, seen, active >>

\* for m := range ch
OutFwdTake(p) ==
  /\ Running
  /\ fwd[p] = <<>>
  /\ ch[p] # <<>>
  /\ fwd' = [fwd EXCEPT ![p] = <<Head(ch[p])>>]
  /\ ch' = [ch EXCEPT ![p] = Tail(@)]
  /\ UNCHANGED << keyInt, pcMain, mainI, partyMap, startPc, sPend, wg, outCh,
                  rpc, cur, ridx, cPend, endCh, endFwd, signerEndCh,
                  discardEndCh, results, totalXi, proc, emitted, ended, startErr,
                  log, lastOk, seen, active >>

\* every forwarder tags with the last party of the loop
EnvelopeLastPid(pid, m) == [from |-> signerParties[Len(signerParties)], data |-> m]

\* msg{from: pid, data: m}
Envelope(pid, m) == [from |-> pid, data |-> m]

\* the send on outCh does not wait for room
OutFwdSendUnbounded(p) ==
  /\ Running
  /\ fwd[p] # <<>>
  /\ outCh' = Append(outCh, [from |-> p, data |-> fwd[p][1]])
  /\ fwd' = [fwd EXCEPT ![p] = <<>>]
  /\ UNCHANGED << keyInt, pcMain, mainI, partyMap, startPc, sPend, wg, ch, rpc,
                  cur, ridx, cPend, endCh, endFwd, signerEndCh, discardEndCh,
                  results, totalXi, proc, emitted, ended, startErr, log, lastOk,
                  seen, active >>

\* outCh <- msg{from: pid, data: m}
OutFwdSend(p) ==
  /\ Running
  /\ fwd[p] # <<>>
  /\ Len(outCh) < OutCap
  /\ outCh' = Append(outCh, Envelope(p, fwd[p][1]))
  /\ fwd' = [fwd EXCEPT ![p] = <<>>]
  /\ UNCHANGED << keyInt, pcMain, mainI, partyMap, startPc, sPend, wg, ch, rpc,
                  cur, ridx, cPend, endCh, endFwd, signerEndCh, discardEndCh,
                  results, totalXi, proc, emitted, ended, startErr, log, lastOk, seen, active >>

\* ------------------------------------------------------------ makeEdEndCh
\* for sd := range ch
EndFwdTake(p) ==
  /\ Running
  /\ endFwd[p] = <<>>
  /\ endCh[p] # <<>>
  /\ endFwd' = [endFwd EXCEPT ![p] = <<Head(endCh[p])>>]
  /\ endCh' = [endCh EXCEPT ![p] = Tail(@)]
  /\ UNCHANGED << keyInt, pcMain, mainI, partyMap, startPc, sPend, wg, ch, fwd,
                  outCh, rpc, cur, ridx, cPend, signerEndCh, discardEndCh,
                  results, totalXi, proc, emitted, ended, startErr, log, lastOk, seen, active >>

\* every party is wired to signerEndCh
EndChOfSigners(p) == "signerEndCh"

\* the channel handed to makeEdEndCh for party p
EndChOf(p) == IF p = importerParty THEN "discardEndCh" ELSE "signerEndCh"

\* every forwarder tags with the last party of the loop
EdResultLastPid(pid, sd) == [pid |-> signerParties[Len(signerParties)], data |-> sd]

\* edresult{pid: pid, data: *sd}
EdResult(pid, sd) == [pid |-> pid, data |-> sd]

\* endCh <- edresult{pid: pid, data: *sd}
EndFwdSend(p) ==
  /\ Running
  /\ endFwd[p] # <<>>
  /\ IF EndChOf(p) = "discardEndCh"
       THEN /\ Len(discardEndCh) < DiscardCap
            /\ discardEndCh' = Append(discardEndCh, EdResult(p, endFwd[p][1]))
            /\ UNCHANGED signerEndCh
       ELSE /\ Len(signerEndCh) < SignerEndCap
            /\ signerEndCh' = Append(signerEndCh, EdResult(p, endFwd[p][1]))
            /\ UNCHANGED discardEndCh
  /\ endFwd' = [endFwd EXCEPT ![p] = <<>>]
  /\ UNCHANGED << keyInt, pcMain, mainI, partyMap, startPc, sPend, wg, ch, fwd,
                  outCh, rpc, cur, ridx, cPend, endCh, results, totalXi, proc,
                  emitted, ended, startErr, log, lastOk, seen, active >>

\* ------------------------------------------------------------ router
\* one line of the router's record: what it did with recipient k of envelope m
Ev(ev, m, k) ==
  [ev |-> ev, from |-> m.from, seq |-> m.data.seq, k |-> k,
   to |-> IF k = 0 THEN "" ELSE m.data.to[k]]

\* the error of WireBytes() dropped
WireErrNever(m) == FALSE

\* m.data.WireBytes() returned an error
WireErr(m) == ~m.data.wire

\* the router takes the newest envelope of outCh instead of the oldest
RouterRecvNewest ==
  /\ Running
  /\ rpc = "recv"
  /\ outCh # <<>>
  /\ outCh' = SubSeq(outCh, 1, Len(outCh) - 1)
  /\ seen' = Append(seen, outCh[Len(outCh)])
  /\ LET m == outCh[Len(outCh)] IN
       IF ~m.data.wire
         THEN /\ log' = Append(log, Ev("wireErr", m, 0))
              /\ UNCHANGED << rpc, cur, ridx >>
         ELSE /\ cur' = <<m>>
              /\ ridx' = 1
              /\ rpc' = "iter"
              /\ log' = log
  /\ UNCHANGED << keyInt, pcMain, mainI, partyMap, startPc, sPend, wg, ch, fwd,
                  cPend, endCh, endFwd, signerEndCh, discardEndCh, results,
                  totalXi, proc, emitted, ended, startErr, lastOk, active >>

\* m := <-outCh; payload, routing, err := m.data.WireBytes()
RouterRecv ==
  /\ Running
  /\ rpc = "recv"
  /\ outCh # <<>>
  /\ outCh' = Tail(outCh)
  /\ seen' = Append(seen, Head(outCh))
  /\ LET m == Head(outCh) IN
       IF WireErr(m)
         THEN /\ log' = Append(log, Ev("wireErr", m, 0))
              /\ UNCHANGED << rpc, cur, ridx >>
         ELSE /\ cur' = <<m>>
              /\ ridx' = 1
              /\ rpc' = "iter"
              /\ log' = log
  /\ UNCHANGED << keyInt, pcMain, mainI, partyMap, startPc, sPend, wg, ch, fwd,
                  cPend, endCh, endFwd, signerEndCh, discardEndCh, results,
                  totalXi, proc, emitted, ended, startErr, lastOk, active >>

\* the self check left out
IsSelfNever(m, to) == FALSE

\* if to.Id == m.from.Id
IsSelf(m, to) == to = m.from

\* p := partyMap[to.Id]; if p == nil
NotFound(to) == to \notin partyMap

\* fmt.Printf("Ignoring message from self"); continue
OnSelf ==
  /\ log' = Append(log, Ev("self", Cur, ridx))
  /\ ridx' = ridx + 1
  /\ UNCHANGED << rpc, cur, cPend, active >>

\* break instead of continue: the rest of the envelope is dropped
OnNotFoundBreak ==
  /\ log' = Append(log, Ev("notfound", Cur, ridx))
  /\ rpc' = "recv"
  /\ cur' = <<>>
  /\ ridx' = 0
  /\ UNCHANGED << cPend, active >>

\* log.Printf("Party instance for %s not found"); continue
OnNotFound ==
  /\ log' = Append(log, Ev("notfound", Cur, ridx))
  /\ ridx' = ridx + 1
  /\ UNCHANGED << rpc, cur, cPend, active >>

\* the head of one iteration of "for _, to := range routing.To", up to the call
\* of p.UpdateFromBytes; the engine decides there how many messages it will send
RouterIter(sizes, budget) ==
  /\ Running
  /\ rpc = "iter"
  /\ IF ridx > Len(Cur.data.to)
       THEN /\ rpc' = "recv"
            /\ cur' = <<>>
            /\ ridx' = 0
            /\ UNCHANGED << log, cPend, active >>
       ELSE IF IsSelf(Cur, Target) THEN OnSelf
       ELSE IF NotFound(Target) THEN OnNotFound
       ELSE /\ log' = Append(log, Ev("consume", Cur, ridx))
            /\ rpc' = "inConsume"
            /\ active' = [active EXCEPT ![Target] = @ + 1]
            /\ \E k \in Bursts(sizes, budget) : cPend' = k
            /\ UNCHANGED << cur, ridx >>
  /\ UNCHANGED << keyInt, pcMain, mainI, partyMap, startPc, sPend, wg, ch, fwd,
                  outCh, endCh, endFwd, signerEndCh, discardEndCh, results,
                  totalXi, proc, emitted, ended, startErr, lastOk, seen >>

\* the engine of p answers envelope m with an error or with ok = false
Refuses(p, m) == p \in m.data.rej

\* go p.UpdateFromBytes(...): the router goes on while the call is running
RouterUpdateDetached ==
  /\ Running
  /\ rpc = "inConsume"
  /\ lastOk' = "ok"
  /\ rpc' = "updated"
  /\ UNCHANGED << keyInt, pcMain, mainI, partyMap, startPc, sPend, wg, ch, fwd,
                  outCh, cur, ridx, cPend, endCh, endFwd, signerEndCh,
                  discardEndCh, results, totalXi, proc, emitted, ended, startErr,
                  log, seen, active >>

\* ok, err := p.UpdateFromBytes(payload, m.from, routing.IsBroadcast) returns
RouterUpdateReturn ==
  /\ Running
  /\ rpc = "inConsume"
  /\ cPend = 0
  /\ lastOk' = IF Refuses(Target, Cur) THEN "rejected" ELSE "ok"
  /\ active' = [active EXCEPT ![Target] = @ - 1]
  /\ rpc' = "updated"
  /\ UNCHANGED << keyInt, pcMain, mainI, partyMap, startPc, sPend, wg, ch, fwd,
                  outCh, cur, ridx, cPend, endCh, endFwd, signerEndCh,
                  discardEndCh, results, totalXi, proc, emitted, ended, startErr,
                  log, seen >>

\* a refused message is offered to the same recipient again
RouterAfterUpdateRetry ==
  /\ Running
  /\ rpc = "updated"
  /\ log' = IF lastOk = "rejected" THEN Append(log, Ev("rejected", Cur, ridx)) ELSE log
  /\ lastOk' = "none"
  /\ rpc' = "iter"
  /\ ridx' = IF lastOk = "rejected" THEN ridx ELSE ridx + 1
  /\ UNCHANGED << keyInt, pcMain, mainI, partyMap, startPc, sPend, wg, ch, fwd,
                  outCh, cur, cPend, endCh, endFwd, signerEndCh, discardEndCh,
                  results, totalXi, proc, emitted, ended, startErr, seen, active >>

\* the rest of the loop body: err and !ok are logged, then the next recipient
RouterAfterUpdate ==
  /\ Running
  /\ rpc = "updated"
  /\ log' = IF lastOk = "rejected" THEN Append(log, Ev("rejected", Cur, ridx)) ELSE log
  /\ lastOk' = "none"
  /\ rpc' = "iter"
  /\ ridx' = ridx + 1
  /\ UNCHANGED << keyInt, pcMain, mainI, partyMap, startPc, sPend, wg, ch, fwd,
                  outCh, cur, cPend, endCh, endFwd, signerEndCh, discardEndCh,
                  results, totalXi, proc, emitted, ended, startErr, seen, active >>

\* ------------------------------------------------------------ main: collect, verify
\* results[r.pid.Id] = r
Store(res, r) == {e \in res : e.pid # r.pid} \cup {r}

\* one iteration of "for i := 0; i < 3; i++ { r := <-signerEndCh; ... }"
MainCollect ==
  /\ Running
  /\ pcMain = "collect"
  /\ signerEndCh # <<>>
  /\ signerEndCh' = Tail(signerEndCh)
  /\ results' = Store(results, Head(signerEndCh))
  /\ mainI' = mainI + 1
  /\ pcMain' = IF mainI + 1 < NCollect THEN "collect" ELSE "wait"
  /\ UNCHANGED << keyInt, partyMap, startPc, sPend, wg, ch, fwd, outCh, rpc,
                  cur, ridx, cPend, endCh, endFwd, discardEndCh, totalXi, proc,
                  emitted, ended, startErr, log, lastOk, seen, active >>

\* wg.Wait() left out
MainNoWait ==
  /\ Running
  /\ pcMain = "wait"
  /\ pcMain' = "verify"
  /\ UNCHANGED << keyInt, mainI, partyMap, startPc, sPend, wg, ch, fwd, outCh,
                  rpc, cur, ridx, cPend, endCh, endFwd, signerEndCh,
                  discardEndCh, results, totalXi, proc, emitted, ended, startErr,
                  log, lastOk, seen, active >>

\* wg.Wait()
MainWait ==
  /\ Running
  /\ pcMain = "wait"
  /\ wg = 0
  /\ pcMain' = "verify"
  /\ UNCHANGED << keyInt, mainI, partyMap, startPc, sPend, wg, ch, fwd, outCh,
                  rpc, cur, ridx, cPend, endCh, endFwd, signerEndCh,
                  discardEndCh, results, totalXi, proc, emitted, ended, startErr,
                  log, lastOk, seen, active >>

RECURSIVE SumXi(_)
\* for _, r := range results { totalXi.Add(totalXi, r.data.LocalSecrets.Xi) }
SumXi(res) ==
  IF res = {} THEN 0
  ELSE LET r == CHOOSE e \in res : TRUE IN r.data + SumXi(res \ {r})

\* plaintextKey.Cmp(impSave.LocalSecrets.Xi) != 0
Mismatch(total) == plaintextKey # impSaveXi

\* totalXi.Mod(totalXi, curve.Params().N), the comparison, log.Fatalf or the
\* success line
MainVerify ==
  /\ Running
  /\ pcMain = "verify"
  /\ totalXi' = SumXi(results) % Order
  /\ proc' = IF Mismatch(totalXi') THEN "Failed" ELSE "Done"
  /\ pcMain' = "end"
  /\ UNCHANGED << keyInt, mainI, partyMap, startPc, sPend, wg, ch, fwd, outCh,
                  rpc, cur, ridx, cPend, endCh, endFwd, signerEndCh,
                  discardEndCh, results, emitted, ended, startErr, log, lastOk,
                  seen, active >>

\* ------------------------------------------------------------ specifications
\* a party of the new committee has nothing to send before it has heard from the
\* old committee: its Start() sends no message
NoSend == {0}

\* the steps of a run in which every Start() returns nil, up to the collection
\* loop: the engines draw their messages from shapes, decide on a number in
\* startSizes (Start) or updSizes (UpdateFromBytes) of messages to send in a call,
\* send at most budget messages, publish at most maxEnds results each, the n-th
\* of them carrying a share drawn from shares[n]
Steps(shapes, startSizes, updSizes, budget, maxEnds, shares) ==
  \/ CreateImporter
  \/ CreateSigner
  \/ LaunchSigner(NoSend, budget)
  \/ LaunchImporter(startSizes, budget)
  \/ LaunchRouter
  \/ \E p \in Parties : EngineSend(p, shapes)
  \/ \E p \in Parties : EnginePublish(p, maxEnds, shares)
  \/ \E p \in Parties : StartReturnOk(p)
  \/ \E p \in Parties : OutFwdTake(p)
  \/ \E p \in Parties : OutFwdSend(p)
  \/ \E p \in Parties : EndFwdTake(p)
  \/ \E p \in Parties : EndFwdSend(p)
  \/ RouterRecv
  \/ RouterIter(updSizes, budget)
  \/ RouterUpdateReturn
  \/ RouterAfterUpdate
  \/ MainCollect

\* a Start() fails
Failures ==
  \/ \E p \in Parties : StartReturnErr(p)
  \/ \E p \in Parties : PanicExit(p)

\* the end of main, which three results open
Closing ==
  \/ MainWait
  \/ MainVerify

\* how many messages an engine may decide to send inside one call
Sizes == {0, 1}

\* the run of the program: the parties carry the indices 0..3, every engine
\* keeps its contract (one result at most) and the shares recompose the secret
Next ==
  \/ Steps(Shapes, Sizes, Sizes, MaxMsgs, 1, <<{SoundShare}>>)
  \/ Failures
  \/ Closing

Spec == Init /\ [][Next]_vars

\* a run whose signers may end with any share of ShareValues
NextShares ==
  \/ Steps(Shapes, Sizes, Sizes, MaxMsgs, 1, <<ShareValues>>)
  \/ Closing

SpecShares == Init /\ [][NextShares]_vars

\* the message of a run of SpecDup: a broadcast to both committees
DupShapes ==
  { [to |-> <<"importer", "signer1", "signer2", "signer3">>, bc |-> TRUE,
     wire |-> TRUE, rej |-> {}] }

\* the shares of an engine that publishes again: another share the second time
DupShares == <<{SoundShare}, ShareValues \ {SoundShare}>>

\* a run whose engines may break their contract and publish a result twice
NextDup ==
  \/ Steps(DupShapes, Sizes, Sizes, MaxMsgs, MaxDupEnds, DupShares)
  \/ Closing

SpecDup == Init /\ [][NextDup]_vars

\* the indices a party may carry: -1 stands for every negative index
AnyKeys == {f \in [Parties -> {-1, 0, 1, 2, 3}] :
              \A p \in Parties : f[p] \in {RealKey(p), -1}}

\* a run whose parties may carry a negative index
SpecKeys == InitOf(AnyKeys) /\ [][Next]_vars

\* the least burst of one call that fills the sender's channel, its forwarder
\* and the shared stream, and leaves one message to send
Burst == ChCap + 1 + OutCap + 1

\* the message of a run of SpecFlow: directed to signer1
FlowShapes == { [to |-> <<"signer1">>, bc |-> FALSE, wire |-> TRUE, rej |-> {}] }

\* a run in which every Start() returns nil and an engine may send a burst of
\* messages inside UpdateFromBytes; only signer1 hears of the others, so main
\* stays in its collection loop
NextFlow == Steps(FlowShapes, Sizes, {0, Burst}, Burst + 1, 1, <<{SoundShare}>>)

SpecFlow == Init /\ [][NextFlow]_vars

\* messages the engines emit in a run of SpecRoute, all parties together
RouteMsgs == 3

\* the messages of a run of SpecRoute: one for two parties of the new committee,
\* which the first of them refuses, and one whose WireBytes() fails
RouteShapes ==
  { [to |-> <<"signer1", "signer2">>, bc |-> FALSE, wire |-> TRUE,
     rej |-> {"signer1"}],
    [to |-> <<"signer2">>, bc |-> FALSE, wire |-> FALSE, rej |-> {}] }

\* the importer's Start() sends nothing or two messages
RouteStart == {0, 2}

\* the routing of a run, without the completions: every Start() returns nil, the
\* importer sends inside Start() and the signers inside UpdateFromBytes, so that
\* two engines may be sending at once
NextRoute ==
  \/ CreateImporter
  \/ CreateSigner
  \/ LaunchSigner(NoSend, RouteMsgs)
  \/ LaunchImporter(RouteStart, RouteMsgs)
  \/ LaunchRouter
  \/ \E p \in Parties : EngineSend(p, RouteShapes)
  \/ \E p \in Parties : StartReturnOk(p)
  \/ \E p \in Parties : OutFwdTake(p)
  \/ \E p \in Parties : OutFwdSend(p)
  \/ RouterRecv
  \/ RouterIter(Sizes, RouteMsgs)
  \/ RouterUpdateReturn
  \/ RouterAfterUpdate

SpecRoute == Init /\ [][NextRoute]_vars

\* the messages of a run of SpecDiscard: the old committee writes to the new one
\* and the new one answers the old
DiscardShapes(p) ==
  IF p = importerParty
    THEN { [to |-> <<"signer1", "signer2", "signer3">>, bc |-> TRUE, wire |-> TRUE,
            rej |-> {}] }
    ELSE { [to |-> <<"importer">>, bc |-> FALSE, wire |-> TRUE, rej |-> {}] }

\* a run in which the new committee answers the old one, so that the importer's
\* engine is fed and ends too; every Start() returns nil
NextDiscard ==
  \/ CreateImporter
  \/ CreateSigner
  \/ LaunchSigner(NoSend, MaxMsgs + 1)
  \/ LaunchImporter(Sizes, MaxMsgs + 1)
  \/ LaunchRouter
  \/ \E p \in Parties : EngineSend(p, DiscardShapes(p))
  \/ \E p \in Parties : EnginePublish(p, 1, <<{SoundShare}>>)
  \/ \E p \in Parties : StartReturnOk(p)
  \/ \E p \in Parties : OutFwdTake(p)
  \/ \E p \in Parties : OutFwdSend(p)
  \/ \E p \in Parties : EndFwdTake(p)
  \/ \E p \in Parties : EndFwdSend(p)
  \/ RouterRecv
  \/ RouterIter(Sizes, MaxMsgs + 1)
  \/ RouterUpdateReturn
  \/ RouterAfterUpdate
  \/ MainCollect
  \/ MainWait
  \/ MainVerify

SpecDiscard == Init /\ [][NextDiscard]_vars

\* ------------------------------------------------------------ routing claims
\* the lines of the router's record about envelope e
EventsOf(e) == {i \in DOMAIN log : log[i].from = e.from /\ log[i].seq = e.data.seq}

\* the router has left envelope e behind
Finished(e) == cur # <<e>>

\* the engines on which the router called UpdateFromBytes for envelope e
DeliveredTo(e) == {log[i].to : i \in {j \in EventsOf(e) : log[j].ev = "consume"}}

\* the ids of a routing header
Range(seq) == {seq[k] : k \in DOMAIN seq}

\* C1: the router never calls UpdateFromBytes on the engine of the envelope's
\* sender, neither in a call that has been made nor in the one in progress
C1_NoSelfDelivery ==
  /\ \A i \in DOMAIN log : log[i].ev = "consume" => log[i].to # log[i].from
  /\ rpc \in {"inConsume", "updated"} => Target # Cur.from

\* a broadcast envelope that names its sender was skipped for the sender and
\* delivered to another party
C1_Witness ==
  \E n \in DOMAIN seen :
    /\ seen[n].data.bc
    /\ \E i, j \in EventsOf(seen[n]) :
         /\ log[i].ev = "self"
         /\ log[j].ev = "consume"
         /\ i < j

\* recipient k of envelope e was not found: the router has served recipient k+1
\* or stands before it
MovedPast(e, k) ==
  \/ \E j \in EventsOf(e) : log[j].k = k + 1
  \/ cur = <<e>> /\ ridx = k + 1 /\ rpc = "iter"
  \/ k = Len(e.data.to) /\ Finished(e)

\* the step records that a recipient was not found
RecordsNotFound == Len(log') = Len(log) + 1 /\ log'[Len(log')].ev = "notfound"

Expected(e) ==
  IF e.data.bc THEN Parties \ {e.from}
  ELSE (Range(e.data.to) \cap Parties) \ {e.from}

\* C7: once the router is done with an envelope, a broadcast has been delivered
\* to every party but its sender, whatever its recipient list, and a directed
\* envelope to the parties of its list but its sender
C7_BroadcastReachesAll ==
  \A n \in DOMAIN seen :
    (seen[n].data.wire /\ Finished(seen[n]))
      => DeliveredTo(seen[n]) = Expected(seen[n])

\* ------------------------------------------------------------ collection claims
\* the ids in the collected results
Collected == {e.pid : e \in results}

\* main is past the collection loop
PastCollect == pcMain \in {"wait", "verify", "end"}

\* C4: past the collection loop, the results hold one entry for each party of
\* the new committee and no other
C4_OneResultPerSigner ==
  PastCollect => (Collected = Signers /\ Cardinality(results) = Cardinality(Signers))

\* every signer's engine published once and main has left the collection loop
C4_Witness ==
  /\ pcMain = "verify"
  /\ mainI = NCollect
  /\ \A p \in Signers : ended[p] = 1

\* C5: once a Start() has returned an error, main has not reached the
\* reconstruction check, the sum is not computed, the run is not Done, and the
\* process has exited or the failed goroutine is in its panic
C5_StartErrorFails ==
  \A p \in startErr :
    /\ proc # "Done"
    /\ totalXi = -1
    /\ pcMain \notin {"verify", "end"}
    /\ proc = "Failed" \/ startPc[p] = "panicking"

\* signer2's Start() failed while the router was feeding another engine, and the
\* process has exited
C5_Witness ==
  /\ "signer2" \in startErr
  /\ proc = "Failed"
  /\ rpc = "inConsume"

\* C9: main is in the reconstruction check, or past it, only after three results
\* were received and every Start() has returned; with fewer than three received
\* it is in the collection loop
C9_VerifyAfterBarrier ==
  /\ pcMain \in {"verify", "end"} =>
       /\ mainI = NCollect
       /\ \A p \in Parties : startPc[p] \in {"returned", "panicking"}
       /\ wg = 0
  /\ (rpc # "none" /\ mainI < NCollect) => pcMain = "collect"
  /\ totalXi # -1 => pcMain = "end"

\* main waits in wg.Wait() with three results while a Start() has not returned
C9_Witness ==
  /\ pcMain = "wait"
  /\ mainI = NCollect
  /\ \E p \in Parties : startPc[p] = "inStart"

\* C2: the run is Done only if the collected shares, summed modulo the order,
\* give plaintextKey
C2_DoneOnlyIfSumMatches ==
  proc = "Done" => SumXi(results) % Order = plaintextKey

\* the step in which main takes a result whose id it has already stored
TakesDuplicate ==
  /\ pcMain = "collect"
  /\ signerEndCh # <<>>
  /\ signerEndCh' = Tail(signerEndCh)
  /\ Head(signerEndCh).pid \in Collected

\* C3: a result for an id that is already collected is rejected: it replaces
\* nothing and does not count
C3_DuplicateRejected ==
  [][TakesDuplicate => (results' = results /\ mainI' = mainI)]_vars

\* C8: the router is never inside UpdateFromBytes of an engine that has a message
\* to send while that engine's channel, its forwarder and the shared stream are
\* all full
C8_NoRouterEngineBlock ==
  ~ /\ rpc = "inConsume"
    /\ cPend > 0
    /\ Len(ch[Target]) = ChCap
    /\ fwd[Target] # <<>>
    /\ Len(outCh) = OutCap

\* C10: while a party carries a negative index no Start() goroutine is launched
C10_NegativeIndexAborts ==
  (\E p \in Parties : keyInt[p] < 0) => \A q \in Parties : startPc[q] = "none"

\* ------------------------------------------------------------ delivery claims
\* the step records that a recipient refused the envelope
RecordsRejected == Len(log') = Len(log) + 1 /\ log'[Len(log')].ev = "rejected"

\* the UpdateFromBytes calls the router made for envelope e on the engine of p
CallsOf(e, p) == {i \in EventsOf(e) : log[i].ev = "consume" /\ log[i].to = p}

\* C11: a refusal by UpdateFromBytes is recorded, the step that records it leaves
\* the run alive and the router in the same envelope at the next recipient, every
\* later recipient is served, and no engine gets the same envelope twice
C11_RejectionSkipped ==
  /\ [](\A n \in DOMAIN seen : \A p \in Parties :
          Cardinality(CallsOf(seen[n], p)) <= 1)
  /\ [](\A n \in DOMAIN seen : \A i \in EventsOf(seen[n]) :
          log[i].ev = "rejected" => MovedPast(seen[n], log[i].k))
  /\ [][RecordsRejected =>
          /\ proc' = proc
          /\ cur' = cur
          /\ rpc' = "iter"
          /\ ridx' = ridx + 1]_vars

\* a refusal was recorded, the next recipient of the same envelope got its
\* UpdateFromBytes, and so did a recipient of a later envelope
C11_Witness ==
  \E n \in DOMAIN seen : \E i, j \in EventsOf(seen[n]) :
    /\ log[i].ev = "rejected"
    /\ log[j].ev = "consume"
    /\ log[j].k = log[i].k + 1
    /\ \E m \in DOMAIN seen : m > n /\ \E h \in EventsOf(seen[m]) : log[h].ev = "consume"

\* the place in seen of the envelope that line i of the record is about
PosOf(i) ==
  CHOOSE n \in DOMAIN seen :
    seen[n].from = log[i].from /\ seen[n].data.seq = log[i].seq

\* the step begins an UpdateFromBytes call
BeginsCall == Len(log') = Len(log) + 1 /\ log'[Len(log')].ev = "consume"

\* C12: the router takes the oldest envelope of the shared stream, its record
\* follows the envelopes in the order it took them and, within an envelope, the
\* recipients in the order of routing.To, and a call begins only when no call
\* is in progress
C12_ArrivalOrder ==
  /\ [](\A i, j \in DOMAIN log : i < j =>
          \/ PosOf(i) < PosOf(j)
          \/ PosOf(i) = PosOf(j) /\ log[i].k <= log[j].k)
  /\ [](\A i \in DOMAIN log :
          log[i].ev = "consume" => log[i].to = seen[PosOf(i)].data.to[log[i].k])
  /\ [](rpc \in {"recv", "iter"} => \A p \in Parties : active[p] = 0)
  /\ [][BeginsCall => \A p \in Parties : active[p] = 0]_vars
  /\ [][seen' # seen => (outCh # <<>> /\ seen' = Append(seen, Head(outCh)))]_vars

\* the first two envelopes were each delivered to their two recipients, in the
\* order of their lists, while a third message is on its way to the stream
C12_Witness ==
  /\ Len(seen) >= 2
  /\ \A n \in 1..2 : \E i, j \in EventsOf(seen[n]) :
       /\ log[i].ev = "consume" /\ log[i].k = 1
       /\ log[j].ev = "consume" /\ log[j].k = 2
  /\ \E p \in Parties : Len(ch[p]) + Len(fwd[p]) > 0

\* C13: no engine has two UpdateFromBytes calls in progress, a call in progress
\* is the one the router is in, and a call begins in a step of the router
C13_SingleCaller ==
  /\ [](\A p \in Parties : active[p] <= 1)
  /\ [](\A p \in Parties : active[p] = 1 <=> InUpdate(p))
  /\ [][BeginsCall => (rpc = "iter" /\ rpc' = "inConsume")]_vars

\* signer2 is inside its second UpdateFromBytes call
C13_Witness ==
  /\ active["signer2"] = 1
  /\ Cardinality({i \in DOMAIN log : log[i].ev = "consume" /\ log[i].to = "signer2"}) >= 2

\* C14: the router is inside UpdateFromBytes only of an engine whose Start() has
\* returned
C14_ConsumeAfterStart ==
  \A p \in Parties : active[p] > 0 => startPc[p] = "returned"

\* ------------------------------------------------------------ stream claims
\* the envelopes that have reached the shared stream, in order
Arrived == seen \o outCh

\* the places where message n of party p is: its channel, its forwarder, the stream
Copies(p, n) ==
  Cardinality({k \in DOMAIN ch[p] : ch[p][k].src = p /\ ch[p][k].seq = n})
  + Cardinality({k \in DOMAIN fwd[p] : fwd[p][k].src = p /\ fwd[p][k].seq = n})
  + Cardinality({k \in DOMAIN Arrived :
                  Arrived[k].data.src = p /\ Arrived[k].data.seq = n})

\* C15: a message an engine has sent is in one place, on its way to the shared
\* stream or on it, the stream holds no message the engines did not send, and
\* every envelope of the stream carries the sender the message names
C15_TaggedOnce ==
  /\ \A p \in Parties : \A n \in 1..emitted[p] : Copies(p, n) = 1
  /\ \A k \in DOMAIN Arrived :
       /\ Arrived[k].from = Arrived[k].data.src
       /\ Arrived[k].data.seq \in 1..emitted[Arrived[k].from]

\* a signer's message reached the stream between two messages of the importer
C15_Witness ==
  \E i, j, k \in DOMAIN Arrived :
    /\ i < j /\ j < k
    /\ Arrived[i].from = importerParty
    /\ Arrived[j].from \in Signers
    /\ Arrived[k].from = importerParty

\* C16: outCh and every party's channel hold at most their capacity, and every
\* message sent is still in one place: none was dropped for want of room
C16_BoundedBuffers ==
  /\ Len(outCh) <= OutCap
  /\ \A p \in Parties : Len(ch[p]) <= ChCap
  /\ \A p \in Parties : Len(fwd[p]) <= 1
  /\ \A p \in Parties : \A n \in 1..emitted[p] : Copies(p, n) = 1

\* both buffers are full, the forwarder holds a message and the engine has more
\* to send: every producer waits
C16_Witness ==
  \E p \in Parties :
    /\ Len(outCh) = OutCap
    /\ Len(ch[p]) = ChCap
    /\ fwd[p] # <<>>
    /\ InUpdate(p)
    /\ cPend > 0
    /\ emitted[p] = OutCap + ChCap + 1

\* an engine has been started or the router runs
Started == rpc # "none" \/ \E p \in Parties : startPc[p] # "none"

\* C17: from the first go statement on, partyMap holds the importer and every
\* signer, and no step changes it
C17_PartyMapFrozen ==
  /\ [](Started => partyMap = Parties)
  /\ [][Started => partyMap' = partyMap]_vars

\* the router has looked up two recipients, one of them unknown, while a Start()
\* is still running
C17_Witness ==
  /\ \E i, j \in DOMAIN log : log[i].ev = "notfound" /\ log[j].ev = "consume"
  /\ \E p \in Parties : startPc[p] = "inStart"

\* C18: the router takes the messages of one sender in the order the sender's
\* engine sent them, and a recipient gets them in that order
C18_PerSenderOrder ==
  /\ \A i, j \in DOMAIN seen :
       (i < j /\ seen[i].from = seen[j].from) => seen[i].data.seq < seen[j].data.seq
  /\ \A i, j \in DOMAIN log :
       ( /\ i < j
         /\ log[i].ev = "consume" /\ log[j].ev = "consume"
         /\ log[i].from = log[j].from
         /\ log[i].to = log[j].to ) => log[i].seq < log[j].seq

\* signer2 got both messages of the importer, and the router took a signer's
\* message between them
C18_Witness ==
  /\ \E i, j \in DOMAIN log :
       /\ log[i].ev = "consume" /\ log[j].ev = "consume"
       /\ log[i].from = importerParty /\ log[j].from = importerParty
       /\ log[i].to = "signer2" /\ log[j].to = "signer2"
       /\ log[i].seq = 1 /\ log[j].seq = 2
  /\ \E n \in DOMAIN seen : n > 1 /\ n < Len(seen) /\ seen[n].from \in Signers

\* C19: the importer's result is never on signerEndCh nor among the collected
\* results, main counts the signers' results only, discardEndCh is never read,
\* and the importer's engine and its forwarder always find room
C19_ImporterDiscarded ==
  /\ [](importerParty \notin Collected)
  /\ [](\A k \in DOMAIN signerEndCh : signerEndCh[k].pid # importerParty)
  /\ []((pcMain = "collect" \/ PastCollect) => mainI = Cardinality(results))
  /\ [](ended[importerParty] = 0 => Len(endCh[importerParty]) < EndChCap)
  /\ [](endFwd[importerParty] # <<>> => Len(discardEndCh) < DiscardCap)
  /\ [][Len(discardEndCh') >= Len(discardEndCh)]_vars

\* the run is Done with the importer's result left on discardEndCh
C19_Witness ==
  /\ proc = "Done"
  /\ Len(discardEndCh) = 1
  /\ discardEndCh[1].pid = importerParty

\* the step records that WireBytes() failed
RecordsWireErr == Len(log') = Len(log) + 1 /\ log'[Len(log')].ev = "wireErr"

\* C20: an envelope whose WireBytes() fails gets no line in the record but that
\* of the failure, and the step that records it leaves the run alive, the router
\* at the next receive and every engine as it was
C20_WireErrorSkipped ==
  /\ [](\A n \in DOMAIN seen :
          ~seen[n].data.wire =>
             \A i \in EventsOf(seen[n]) : log[i].ev = "wireErr")
  /\ [][RecordsWireErr =>
          /\ proc' = proc
          /\ rpc' = "recv"
          /\ cur' = <<>>
          /\ UNCHANGED << active, cPend, emitted, ended, ch, endCh >>]_vars

\* a failure of WireBytes() was recorded, and a recipient of a later envelope
\* got its UpdateFromBytes
C20_Witness ==
  \E n, m \in DOMAIN seen :
    /\ n < m
    /\ ~seen[n].data.wire
    /\ \E i \in EventsOf(seen[n]) : log[i].ev = "wireErr"
    /\ \E h \in EventsOf(seen[m]) : log[h].ev = "consume"

=============================================================================
